---- MODULE Spec2Model ----
(***************************************************************************)
(* State-machine model of the request-orchestration layer of the incident  *)
(* response frontend: the useAnalysis hook (operation lifecycle) and the   *)
(* API client (fetchWithTimeout, fetchWithRetry, handleResponse).          *)
(*                                                                         *)
(* JavaScript runs each continuation to completion, so one action is the   *)
(* code executed between two suspension points (await) of an invocation.   *)
(***************************************************************************)
EXTENDS Integers, Sequences, FiniteSets, TLC

\* ------------------------------------------------------------------ bounds
\* Number of invocation slots: at most this many analyze()/refine() calls are
\* unfinished at the same time.  A slot is reused once its call has returned,
\* so the number of calls in a run is unbounded.
MaxInFlight == 2

\* Number of analyze()/refine() calls that reach the client in a run.
MaxCalls == 3

\* --------------------------------------------------------------- constants
MAX_RETRIES == 2
DEFAULT_TIMEOUT_MS == 30000
INITIAL_RETRY_DELAY_MS == 1000
MAX_RETRY_DELAY_MS == 10000
TRANSCRIPT_MIN_LENGTH == 50
TRANSCRIPT_MAX_LENGTH == 50000
FEEDBACK_MIN_LENGTH == 5
FEEDBACK_MAX_LENGTH == 2000

Slots == 1..MaxInFlight

\* Statuses the upstream may answer with: success, terminal, rate limit, 5xx.
Statuses == {200, 422, 429, 503}

StatusText(s) ==
  CASE s = 200 -> "OK"
    [] s = 422 -> "Unprocessable Entity"
    [] s = 429 -> "Too Many Requests"
    [] s = 503 -> "Service Unavailable"
    [] OTHER -> ""

\* response.ok: status in the range 200-299
ResponseOk(s) == s >= 200 /\ s <= 299

\* ---------------------------------------------------------------- documents
\* A document is abstracted to the sizes its constraints speak about: the
\* number of recipients in draft_email.to and the lengths of
\* description_of_incident, draft_email.subject and draft_email.body.
\* NoResult is the hook's null result.
NoResult == [null |-> TRUE]

\* Bodies a 2xx response may carry (the upstream is a black box).
Bodies ==
  { [to |-> 1, description |-> 10, subject |-> 5, body |-> 20],
    [to |-> 0, description |-> 9,  subject |-> 5, body |-> 20] }

\* The constraints documented on the document types.
IsValidDocument(d) ==
  /\ d # NoResult
  /\ d.to >= 1
  /\ d.description >= 10
  /\ d.subject >= 5
  /\ d.body >= 20

\* ------------------------------------------------------------------- errors
ErrNull == "<null>"
NoResultMsg == "No result to refine. Please analyze a transcript first."
TimeoutMsg == "Request timed out. The server may be busy - please try again."

\* Error objects thrown inside the client.
AbortErrorObj == [name |-> "AbortError", class |-> "DOMException",
                  message |-> "The operation was aborted.", status |-> 0]
TimeoutErrorObj == [name |-> "TimeoutError", class |-> "TimeoutError",
                    message |-> "Request timed out after 30000ms", status |-> 0]
TypeErrorObj(msg) == [name |-> "TypeError", class |-> "TypeError",
                      message |-> msg, status |-> 0]
\* details is the errors list of the error body (<<>> when it has none).
ApiErrorObj(msg, s, details) ==
  [name |-> "ApiError", class |-> "ApiError", message |-> msg, status |-> s,
   details |-> details]
\* response.json() of a body that is not JSON
SyntaxErrorObj == [name |-> "SyntaxError", class |-> "SyntaxError",
                   message |-> "Unexpected end of JSON input", status |-> 0]
\* A thrown value that is not an Error
NonErrorObj == [name |-> "", class |-> "NonError", message |-> "",
                status |-> 0]

\* Messages a rejected fetch carries in different browsers; the flag says
\* whether the text includes the word "fetch".
NetworkMessages == {"Failed to fetch", "Load failed"}
IncludesFetch(msg) == msg = "Failed to fetch"

\* Error bodies of a non-2xx response: the detail text ("" when absent).
Details == {"", "Validation failed"}

\* Error bodies with their errors list (<<>> when absent); EmptyErrorBody is
\* also the {} that replaces a body that cannot be read.
EmptyErrorBody == [detail |-> "", errors |-> <<>>]
ErrorBodies ==
  {EmptyErrorBody,
   [detail |-> "Validation failed", errors |-> <<>>],
   [detail |-> "Validation failed",
    errors |-> <<"transcript too short", "context too long">>]}

\* Array.prototype.join
RECURSIVE Join(_, _)
Join(list, sep) ==
  IF Len(list) = 0 THEN ""
  ELSE IF Len(list) = 1 THEN list[1]
  ELSE list[1] \o sep \o Join(Tail(list), sep)

isAbortErrorAnyError(e) == TRUE

isAbortError(e) == e.name = "AbortError"

formatErrorMessageNoDetails(e) ==
  IF e.class = "TimeoutError" THEN TimeoutMsg
  ELSE IF e.class = "NonError" THEN "An unexpected error occurred"
  ELSE e.message

formatErrorMessage(e) ==
  IF e.class = "TimeoutError" THEN TimeoutMsg
  ELSE IF e.class = "ApiError"
    THEN IF Len(e.details) > 0
           THEN e.message \o ": " \o Join(e.details, ", ")
           ELSE e.message
  ELSE IF e.class # "NonError" THEN e.message
  ELSE "An unexpected error occurred"

isRetryableErrorNoTimeout(e) ==
  \/ e.class = "TypeError" /\ IncludesFetch(e.message)
  \/ e.class = "ApiError" /\ e.status >= 500
  \/ e.class = "ApiError" /\ e.status = 429

isRetryableError(e) ==
  \/ e.class = "TypeError" /\ IncludesFetch(e.message)
  \/ e.class = "TimeoutError"
  \/ e.class = "ApiError" /\ e.status >= 500
  \/ e.class = "ApiError" /\ e.status = 429

\* The retry conditions on a received response inside fetchWithRetry.
IsRetryableStatusAny4xx(s) == s >= 400

IsRetryableStatus(s) == s >= 500 \/ s = 429

\* attempt < maxRetries
HasBudgetInclusive(attempt) == attempt <= MAX_RETRIES

HasBudget(attempt) == attempt < MAX_RETRIES

\* ------------------------------------------------------------------ backoff
Min(a, b) == IF a <= b THEN a ELSE b
Max(a, b) == IF a >= b THEN a ELSE b

RECURSIVE Pow2(_)
Pow2(n) == IF n = 0 THEN 1 ELSE 2 * Pow2(n - 1)

calculateRetryDelayFlat(attempt, jitter) == INITIAL_RETRY_DELAY_MS + jitter

\* jitter stands for Math.random() * 1000, in whole milliseconds.
calculateRetryDelay(attempt, jitter) ==
  LET exponentialDelay == INITIAL_RETRY_DELAY_MS * Pow2(attempt)
      cappedDelay == Min(exponentialDelay, MAX_RETRY_DELAY_MS)
  IN cappedDelay + jitter

\* Values of the Retry-After header, by what the parsers make of the text:
\* absent (null or ""), text parseInt reads a number of seconds from, an
\* HTTP date (parseInt reads no number, Date gives its time in ms), or text
\* neither of them can read.
NoHeader == [form |-> "absent", n |-> 0]
SecondsHeader(n) == [form |-> "seconds", n |-> n]
DateHeader(t) == [form |-> "date", n |-> t]
TextHeader == [form |-> "text", n |-> 0]

parseRetryAfterMillis(retryAfter, fallbackDelay, now) ==
  IF retryAfter.form = "absent" THEN fallbackDelay
  ELSE IF retryAfter.form = "seconds"
    THEN Min(retryAfter.n, MAX_RETRY_DELAY_MS)
  ELSE IF retryAfter.form = "date"
    THEN Min(Max(0, retryAfter.n - now), MAX_RETRY_DELAY_MS)
  ELSE fallbackDelay

\* now stands for Date.now().
parseRetryAfter(retryAfter, fallbackDelay, now) ==
  IF retryAfter.form = "absent" THEN fallbackDelay
  ELSE IF retryAfter.form = "seconds"
    THEN Min(retryAfter.n * 1000, MAX_RETRY_DELAY_MS)
  ELSE IF retryAfter.form = "date"
    THEN Min(Max(0, retryAfter.n - now), MAX_RETRY_DELAY_MS)
  ELSE fallbackDelay

\* ------------------------------------------------------------------- state
VARIABLES
  result,          \* useState: current document or NoResult
  loading,         \* useState: analyze in progress
  refining,        \* useState: refine in progress
  error,           \* useState: error message or ErrNull
  analyzeAbortRef, \* useRef: slot of the stored analyze controller, 0 = null
  refineAbortRef,  \* useRef: slot of the stored refine controller, 0 = null
  mounted,         \* the component owning the hook is mounted
  inv,             \* per-slot state of an unfinished analyze()/refine() call
  lastReturn,      \* value returned by the analyze()/refine() call that
                   \* returned last ("none" before the first return)
  calls,           \* number of calls that reached the client
  elapsed          \* ms since the invocation in flight was started
                   \* (observed under SpecClock only)

vars == <<result, loading, refining, error, analyzeAbortRef, refineAbortRef,
          mounted, inv, lastReturn, calls, elapsed>>

\* pc: the await the invocation is suspended at.
\*   fetch   - await fetch(...) inside fetchWithTimeout
\*   drain   - await response.text().catch(...) of a retryable response
\*   sleep   - await sleep(delay)
\*   readOk  - await response.json() of a 2xx response (handleResponse)
\*   readErr - await response.json().catch(...) of a non-2xx response
\* cancel: why the invocation's own controller was aborted ("none": it was
\* not).  innerAborted: the controller of the current attempt is aborted.
\* status, retryAfter: the response held while its body is read.
\* delay: the argument of the pending sleep.  base: the document a refine
\* call captured as original_response.  len: the length of the trimmed
\* transcript or feedback in the request body.  timers: the attempt indices
\* whose deadline timer is pending (set and neither fired nor cleared).
IdleInv ==
  [kind |-> "none", pc |-> "idle", attempt |-> 0, innerAborted |-> FALSE,
   status |-> 0, retryAfter |-> NoHeader, delay |-> 0, base |-> NoResult,
   cancel |-> "none", len |-> 0, timers |-> {}]

\* signal.aborted of the invocation's controller
Aborted(r) == r.cancel # "none"

InFlight(r) == r.pc # "idle"

Init ==
  /\ result = NoResult
  /\ loading = FALSE
  /\ refining = FALSE
  /\ error = ErrNull
  /\ analyzeAbortRef = 0
  /\ refineAbortRef = 0
  /\ mounted = TRUE
  /\ inv = [i \in Slots |-> IdleInv]
  /\ lastReturn = "none"
  /\ calls = 0
  /\ elapsed = 0

\* ------------------------------------------------------------ cancellation
\* controller.abort() on the controller of slot c (0: the ref is null).
\* The abort event runs the listener fetchWithTimeout registered on the
\* user signal, which aborts the controller of the attempt that registered
\* it (a controller that matters only while that attempt's fetch or body
\* read is pending).  abort() on an already aborted controller does nothing,
\* and neither does aborting the controller of a call that has returned.
AbortOneSkipped(r, cause) == r

AbortOne(r, cause) ==
  IF Aborted(r) \/ ~InFlight(r) THEN r
  ELSE [r EXCEPT !.cancel = cause,
                 !.innerAborted =
                    (r.pc \in {"fetch", "drain", "readOk", "readErr"})]

AbortCtl(f, c, cause) ==
  IF c = 0 THEN f ELSE [f EXCEPT ![c] = AbortOne(@, cause)]

\* fetchWithTimeout entered: a fresh controller and its deadline timer, the
\* abort listener added to the user signal (it never runs when that signal
\* is aborted already), then fetch is called with the fresh controller's
\* signal only.
BeginAttempt(r, n) ==
  [r EXCEPT !.pc = "fetch", !.attempt = n, !.innerAborted = FALSE,
            !.status = 0, !.retryAfter = NoHeader, !.delay = 0,
            !.timers = @ \cup {n}]

ClearTimerSkipped(r) == r

\* finally { clearTimeout(timeoutId) } of the attempt that settled
ClearTimer(r) == [r EXCEPT !.timers = @ \ {r.attempt}]

\* ------------------------------------------------------- hook: operations
\* Slots a new controller can take: those whose call has returned (or that
\* were never used) and that the other kind's ref does not still hold.
FreeSlots(otherRef) ==
  {i \in Slots : ~InFlight(inv[i]) /\ i # otherRef}

NewSlot(otherRef) ==
  CHOOSE i \in FreeSlots(otherRef) : \A j \in FreeSlots(otherRef) : i <= j

analyzeAbortingRefine(len) ==
  /\ mounted
  /\ calls < MaxCalls
  /\ FreeSlots(refineAbortRef) # {}
  /\ LET n == NewSlot(refineAbortRef)
         f == AbortCtl(AbortCtl(inv, analyzeAbortRef, "supersede"),
                       refineAbortRef, "supersede")
     IN /\ inv' = [f EXCEPT ![n] =
                     BeginAttempt([IdleInv EXCEPT !.kind = "analyze",
                                                  !.len = len], 0)]
        /\ analyzeAbortRef' = n
  /\ loading' = TRUE
  /\ error' = ErrNull
  /\ calls' = calls + 1
  /\ UNCHANGED <<result, refining, refineAbortRef, mounted, lastReturn>>

analyze(len) ==
  /\ mounted
  /\ calls < MaxCalls
  /\ FreeSlots(refineAbortRef) # {}
  /\ LET n == NewSlot(refineAbortRef)
         f == AbortCtl(inv, analyzeAbortRef, "supersede")
     IN /\ inv' = [f EXCEPT ![n] =
                     BeginAttempt([IdleInv EXCEPT !.kind = "analyze",
                                                  !.len = len], 0)]
        /\ analyzeAbortRef' = n
  /\ loading' = TRUE
  /\ error' = ErrNull
  /\ calls' = calls + 1
  /\ UNCHANGED <<result, refining, refineAbortRef, mounted, lastReturn>>

\* if (!result) is false
CanRefineAlways(r) == TRUE

CanRefine(r) == r # NoResult

refineRejected ==
  /\ mounted
  /\ ~CanRefine(result)
  /\ error' = NoResultMsg
  /\ lastReturn' = "false"
  /\ UNCHANGED <<result, loading, refining, analyzeAbortRef, refineAbortRef,
                 mounted, inv, calls>>

refineKeepingError(len) ==
  /\ mounted
  /\ CanRefine(result)
  /\ calls < MaxCalls
  /\ FreeSlots(analyzeAbortRef) # {}
  /\ LET n == NewSlot(analyzeAbortRef)
         f == AbortCtl(inv, refineAbortRef, "supersede")
     IN /\ inv' = [f EXCEPT ![n] =
                     BeginAttempt([IdleInv EXCEPT !.kind = "refine",
                                                  !.base = result,
                                                  !.len = len], 0)]
        /\ refineAbortRef' = n
  /\ refining' = TRUE
  /\ calls' = calls + 1
  /\ UNCHANGED <<result, loading, error, analyzeAbortRef, mounted,
                 lastReturn>>

refine(len) ==
  /\ mounted
  /\ CanRefine(result)
  /\ calls < MaxCalls
  /\ FreeSlots(analyzeAbortRef) # {}
  /\ LET n == NewSlot(analyzeAbortRef)
         f == AbortCtl(inv, refineAbortRef, "supersede")
     IN /\ inv' = [f EXCEPT ![n] =
                     BeginAttempt([IdleInv EXCEPT !.kind = "refine",
                                                  !.base = result,
                                                  !.len = len], 0)]
        /\ refineAbortRef' = n
  /\ refining' = TRUE
  /\ error' = ErrNull
  /\ calls' = calls + 1
  /\ UNCHANGED <<result, loading, analyzeAbortRef, mounted, lastReturn>>

clearError ==
  /\ mounted
  /\ error # ErrNull
  /\ error' = ErrNull
  /\ UNCHANGED <<result, loading, refining, analyzeAbortRef, refineAbortRef,
                 mounted, inv, lastReturn, calls>>

cancelRequestsAnalyzeOnly ==
  /\ mounted
  /\ mounted' = FALSE
  /\ inv' = AbortCtl(inv, analyzeAbortRef, "teardown")
  /\ analyzeAbortRef' = 0
  /\ refineAbortRef' = 0
  /\ UNCHANGED <<result, loading, refining, error, lastReturn, calls>>

\* The effect cleanup on unmount.
cancelRequests ==
  /\ mounted
  /\ mounted' = FALSE
  /\ inv' = AbortCtl(AbortCtl(inv, analyzeAbortRef, "teardown"),
                     refineAbortRef, "teardown")
  /\ analyzeAbortRef' = 0
  /\ refineAbortRef' = 0
  /\ UNCHANGED <<result, loading, refining, error, lastReturn, calls>>

\* --------------------------------------------- hook: completion handlers
\* finally { setLoading(false) } / finally { setRefining(false) }
ClearFlag(k) ==
  /\ loading' = IF k = "analyze" THEN FALSE ELSE loading
  /\ refining' = IF k = "refine" THEN FALSE ELSE refining

HookResolveReturningFalse(i, doc) ==
  /\ result' = doc
  /\ lastReturn' = "false"
  /\ inv' = [inv EXCEPT ![i] = IdleInv]
  /\ ClearFlag(inv[i].kind)
  /\ UNCHANGED <<error, analyzeAbortRef, refineAbortRef, mounted, calls>>

\* The awaited client call resolved with a parsed body: setResult; return true.
HookResolve(i, doc) ==
  /\ result' = doc
  /\ lastReturn' = "true"
  /\ inv' = [inv EXCEPT ![i] = IdleInv]
  /\ ClearFlag(inv[i].kind)
  /\ UNCHANGED <<error, analyzeAbortRef, refineAbortRef, mounted, calls>>

HookCatchClearing(i, e) ==
  /\ error' = IF isAbortError(e) THEN error ELSE formatErrorMessage(e)
  /\ result' = NoResult
  /\ lastReturn' = "false"
  /\ inv' = [inv EXCEPT ![i] = IdleInv]
  /\ ClearFlag(inv[i].kind)
  /\ UNCHANGED <<analyzeAbortRef, refineAbortRef, mounted, calls>>

\* The awaited client call threw e: the catch block, then finally.
HookCatch(i, e) ==
  /\ error' = IF isAbortError(e) THEN error ELSE formatErrorMessage(e)
  /\ lastReturn' = "false"
  /\ inv' = [inv EXCEPT ![i] = IdleInv]
  /\ ClearFlag(inv[i].kind)
  /\ UNCHANGED <<result, analyzeAbortRef, refineAbortRef, mounted, calls>>

ClientStepLeaking(i, r) ==
  /\ inv' = [inv EXCEPT ![i] = r]
  /\ error' = IF r.pc = "sleep" THEN "Request failed" ELSE error
  /\ UNCHANGED <<result, loading, refining, analyzeAbortRef,
                 refineAbortRef, mounted, lastReturn, calls>>

\* A step that stays inside the client and touches no hook state.
ClientStep(i, r) ==
  /\ inv' = [inv EXCEPT ![i] = r]
  /\ UNCHANGED <<result, loading, refining, error, analyzeAbortRef,
                 refineAbortRef, mounted, lastReturn, calls>>

\* -------------------------------------------------- client: fetchWithRetry
\* catch block of fetchWithRetry for an error thrown by fetchWithTimeout.
RetryCatch(i, e, jitter) ==
  IF isAbortError(e) THEN HookCatch(i, e)
  ELSE IF isRetryableError(e) /\ HasBudget(inv[i].attempt)
    THEN ClientStep(i, [ClearTimer(inv[i]) EXCEPT
                          !.pc = "sleep", !.innerAborted = FALSE,
                          !.delay = calculateRetryDelay(inv[i].attempt, jitter)])
  ELSE HookCatch(i, e)

FetchResponseDrainAlways(i, s, h) ==
  /\ inv[i].pc = "fetch"
  /\ ~inv[i].innerAborted
  /\ IF IsRetryableStatus(s)
       THEN ClientStep(i, [ClearTimer(inv[i]) EXCEPT
                             !.pc = "drain", !.status = s, !.retryAfter = h])
     ELSE IF ResponseOk(s)
       THEN ClientStep(i, [ClearTimer(inv[i]) EXCEPT
                             !.pc = "readOk", !.status = s])
     ELSE ClientStep(i, [ClearTimer(inv[i]) EXCEPT
                           !.pc = "readErr", !.status = s])

\* fetch resolved with a response of status s and Retry-After header h; the
\* timer is cleared.  The response is held while its body is drained.
FetchResponse(i, s, h) ==
  /\ inv[i].pc = "fetch"
  /\ ~inv[i].innerAborted
  /\ IF IsRetryableStatus(s) /\ HasBudget(inv[i].attempt)
       THEN ClientStep(i, [ClearTimer(inv[i]) EXCEPT
                             !.pc = "drain", !.status = s, !.retryAfter = h])
     ELSE IF ResponseOk(s)
       THEN ClientStep(i, [ClearTimer(inv[i]) EXCEPT
                             !.pc = "readOk", !.status = s])
     ELSE ClientStep(i, [ClearTimer(inv[i]) EXCEPT
                           !.pc = "readErr", !.status = s])

\* fetch rejected with a transport error before any response.
FetchNetworkError(i, msg, jitter) ==
  /\ inv[i].pc = "fetch"
  /\ ~inv[i].innerAborted
  /\ RetryCatch(i, TypeErrorObj(msg), jitter)

FetchTimeoutBlamesDeadline(i, jitter) ==
  /\ inv[i].pc = "fetch"
  /\ inv[i].attempt \in inv[i].timers
  /\ ~inv[i].innerAborted
  /\ RetryCatch(i, TimeoutErrorObj, jitter)

\* The pending deadline timer fired: controller.abort(), fetch rejects with an
\* AbortError, which fetchWithTimeout attributes to the caller when the user
\* signal is aborted and to the deadline otherwise.
FetchTimeout(i, jitter) ==
  /\ inv[i].pc = "fetch"
  /\ inv[i].attempt \in inv[i].timers
  /\ ~inv[i].innerAborted
  /\ RetryCatch(i, IF Aborted(inv[i]) THEN AbortErrorObj ELSE TimeoutErrorObj,
                jitter)

\* The user signal fired while fetch was pending: the listener aborted the
\* attempt's controller and fetch rejects with an AbortError.
FetchAborted(i) ==
  /\ inv[i].pc = "fetch"
  /\ inv[i].innerAborted
  /\ RetryCatch(i, AbortErrorObj, 0)

DrainDoneHintAnyStatus(i, jitter, now) ==
  /\ inv[i].pc = "drain"
  /\ LET fallback == calculateRetryDelay(inv[i].attempt, jitter)
         delay == parseRetryAfter(inv[i].retryAfter, fallback, now)
     IN ClientStep(i, [inv[i] EXCEPT !.pc = "sleep", !.innerAborted = FALSE,
                                     !.status = 0, !.retryAfter = NoHeader,
                                     !.delay = delay])

\* response.text().catch(() => {}) settled (a failure, such as an aborted
\* body, is swallowed); the delay is computed and sleep(delay) awaited.
DrainDone(i, jitter, now) ==
  /\ inv[i].pc = "drain"
  /\ LET fallback == calculateRetryDelay(inv[i].attempt, jitter)
         delay == IF inv[i].status = 429
                    THEN parseRetryAfter(inv[i].retryAfter, fallback, now)
                    ELSE fallback
     IN ClientStep(i, [inv[i] EXCEPT !.pc = "sleep", !.innerAborted = FALSE,
                                     !.status = 0, !.retryAfter = NoHeader,
                                     !.delay = delay])

SleepDoneSkipsIndex(i) ==
  /\ inv[i].pc = "sleep"
  /\ ClientStep(i, BeginAttempt(inv[i], inv[i].attempt + 2))

\* sleep(delay) resolved; continue with the next iteration of the loop.
SleepDone(i) ==
  /\ inv[i].pc = "sleep"
  /\ ClientStep(i, BeginAttempt(inv[i], inv[i].attempt + 1))

\* ------------------------------------------------- client: handleResponse
\* response.json() of a 2xx response resolved with body b.
ReadOkDone(i, b) ==
  /\ inv[i].pc = "readOk"
  /\ ~inv[i].innerAborted
  /\ HookResolve(i, b)

\* response.json() of a 2xx response rejected because the attempt's
\* controller was aborted while the body was being read.
ReadOkAborted(i) ==
  /\ inv[i].pc = "readOk"
  /\ inv[i].innerAborted
  /\ HookCatch(i, AbortErrorObj)

\* response.json() of a 2xx response rejected because the body is not JSON.
ReadOkInvalidJson(i) ==
  /\ inv[i].pc = "readOk"
  /\ ~inv[i].innerAborted
  /\ HookCatch(i, SyntaxErrorObj)

ReadErrDoneStaleStatus(i, errorData) ==
  /\ inv[i].pc = "readErr"
  /\ inv[i].innerAborted => errorData = EmptyErrorBody
  /\ LET msg == IF errorData.detail # "" THEN errorData.detail
                ELSE "Request failed: " \o StatusText(503)
     IN HookCatch(i, ApiErrorObj(msg, 503, errorData.errors))

\* Non-2xx response: response.json().catch(() => ({})) settled with the
\* error body (the empty one when the body could not be read, as when the
\* controller was aborted); ApiError is thrown.
ReadErrDone(i, errorData) ==
  /\ inv[i].pc = "readErr"
  /\ inv[i].innerAborted => errorData = EmptyErrorBody
  /\ LET s == inv[i].status
         msg == IF errorData.detail # "" THEN errorData.detail
                ELSE "Request failed: " \o StatusText(s)
     IN HookCatch(i, ApiErrorObj(msg, s, errorData.errors))

\* ---------------------------------------------------------- specification
\* Spec explores every interleaving of calls and client steps.  The lengths
\* of the waits do not influence which interleavings exist, so Spec fixes the
\* jitter at 0, the Retry-After header as absent, the transcript and the
\* feedback at their minimum lengths and every body as JSON without an
\* errors list, and leaves the clock off.
Next ==
  \/ analyze(TRANSCRIPT_MIN_LENGTH) /\ UNCHANGED elapsed
  \/ refineRejected /\ UNCHANGED elapsed
  \/ refine(FEEDBACK_MIN_LENGTH) /\ UNCHANGED elapsed
  \/ clearError /\ UNCHANGED elapsed
  \/ cancelRequests /\ UNCHANGED elapsed
  \/ \E i \in Slots, s \in Statuses :
       FetchResponse(i, s, NoHeader) /\ UNCHANGED elapsed
  \/ \E i \in Slots, m \in NetworkMessages :
       FetchNetworkError(i, m, 0) /\ UNCHANGED elapsed
  \/ \E i \in Slots : FetchTimeout(i, 0) /\ UNCHANGED elapsed
  \/ \E i \in Slots : FetchAborted(i) /\ UNCHANGED elapsed
  \/ \E i \in Slots : DrainDone(i, 0, 0) /\ UNCHANGED elapsed
  \/ \E i \in Slots : SleepDone(i) /\ UNCHANGED elapsed
  \/ \E i \in Slots, b \in Bodies : ReadOkDone(i, b) /\ UNCHANGED elapsed
  \/ \E i \in Slots : ReadOkAborted(i) /\ UNCHANGED elapsed
  \/ \E i \in Slots, d \in Details :
       ReadErrDone(i, [detail |-> d, errors |-> <<>>]) /\ UNCHANGED elapsed

Spec == Init /\ [][Next]_vars

\* SpecTimers adds what the timers and the abort events guarantee: a deadline
\* timer fires while its fetch is pending, a backoff wait elapses, and an
\* aborted fetch or body read settles.  Nothing is assumed about the
\* upstream: a response or the end of a body may never arrive.
TimerFairness(i) ==
  /\ WF_vars(FetchTimeout(i, 0) /\ UNCHANGED elapsed)
  /\ WF_vars(SleepDone(i) /\ UNCHANGED elapsed)
  /\ WF_vars(FetchAborted(i) /\ UNCHANGED elapsed)
  /\ WF_vars(ReadOkAborted(i) /\ UNCHANGED elapsed)
  /\ WF_vars(inv[i].innerAborted /\ DrainDone(i, 0, 0) /\ UNCHANGED elapsed)
  /\ WF_vars(inv[i].innerAborted /\ ReadErrDone(i, EmptyErrorBody)
               /\ UNCHANGED elapsed)

SpecTimers == Init /\ [][Next]_vars /\ \A i \in Slots : TimerFairness(i)

\* SpecClock follows one invocation at a time (a call starts only when no
\* other is unfinished) and measures the time it takes: the network time of
\* each attempt, the time to read each body and each backoff wait.
Jitters == {0, 999}
Latencies == {0, 200}
\* Retry-After values: none, 5 s, 20 s (beyond the cap), 0 s, -5 s, a date
\* one minute before the call started, a date 3 s after it started, and
\* other text.  Dates are in ms on the clock that reads 0 when the call
\* starts.
Headers ==
  {NoHeader, SecondsHeader(5), SecondsHeader(20), SecondsHeader(0),
   SecondsHeader(-5), DateHeader(-60000), DateHeader(3000), TextHeader}

Quiet == \A i \in Slots : ~InFlight(inv[i])

\* Values response.json() of a 2xx response may resolve with: a document, or
\* null when the body is the JSON text null.
ResponseBodies == Bodies \cup {NoResult}

\* Trimmed lengths of the transcript and of the feedback passed to the hook.
TranscriptLengths == {TRANSCRIPT_MIN_LENGTH - 1, TRANSCRIPT_MIN_LENGTH}
FeedbackLengths == {FEEDBACK_MIN_LENGTH - 1, FEEDBACK_MIN_LENGTH}

TimerWaitUnclamped(ms) == ms

\* setTimeout treats a negative delay as 0.
TimerWait(ms) == Max(0, ms)

NextClock ==
  \/ \E n \in TranscriptLengths : Quiet /\ analyze(n) /\ elapsed' = 0
  \/ \E n \in FeedbackLengths : Quiet /\ refine(n) /\ elapsed' = 0
  \/ Quiet /\ refineRejected /\ UNCHANGED elapsed
  \/ clearError /\ UNCHANGED elapsed
  \/ cancelRequests /\ UNCHANGED elapsed
  \/ \E i \in Slots, s \in Statuses, h \in Headers, d \in Latencies :
       FetchResponse(i, s, h) /\ elapsed' = elapsed + d
  \/ \E i \in Slots, m \in NetworkMessages, j \in Jitters, d \in Latencies :
       FetchNetworkError(i, m, j) /\ elapsed' = elapsed + d
  \/ \E i \in Slots, j \in Jitters :
       FetchTimeout(i, j) /\ elapsed' = elapsed + DEFAULT_TIMEOUT_MS
  \/ \E i \in Slots : FetchAborted(i) /\ UNCHANGED elapsed
  \/ \E i \in Slots, j \in Jitters, d \in Latencies :
       DrainDone(i, j, elapsed + d) /\ elapsed' = elapsed + d
  \/ \E i \in Slots :
       SleepDone(i) /\ elapsed' = elapsed + TimerWait(inv[i].delay)
  \/ \E i \in Slots, b \in ResponseBodies, d \in Latencies :
       ReadOkDone(i, b) /\ elapsed' = elapsed + d
  \/ \E i \in Slots : ReadOkAborted(i) /\ UNCHANGED elapsed
  \/ \E i \in Slots, d \in Latencies :
       ReadOkInvalidJson(i) /\ elapsed' = elapsed + d
  \/ \E i \in Slots, b \in ErrorBodies, d \in Latencies :
       ReadErrDone(i, b) /\ elapsed' = elapsed + d

SpecClock == Init /\ [][NextClock]_vars

\* SpecPage drives the hook through the page only: the Analyze button and
\* the Refine button of the results panel are the only callers of analyze
\* and refine, and the page never calls clearError.
handleAnalyzeUngated(len) == analyze(len)

\* The Analyze button is disabled while loading or while the trimmed
\* transcript is shorter than the minimum, and the page's handler returns
\* early on a short transcript.
handleAnalyze(len) ==
  /\ ~loading
  /\ len >= TRANSCRIPT_MIN_LENGTH
  /\ analyze(len)

\* The results panel with its feedback form is rendered only while a result
\* exists and loading is false; the Refine button is disabled while
\* refining or while the trimmed feedback is shorter than the minimum; the
\* panel's handler returns early on short feedback and the page's on a
\* missing result.
handleRefine(len) ==
  /\ result # NoResult
  /\ ~loading
  /\ ~refining
  /\ len >= FEEDBACK_MIN_LENGTH
  /\ refine(len)

NextPage ==
  \/ \E n \in TranscriptLengths : handleAnalyze(n) /\ UNCHANGED elapsed
  \/ \E n \in FeedbackLengths : handleRefine(n) /\ UNCHANGED elapsed
  \/ cancelRequests /\ UNCHANGED elapsed
  \/ \E i \in Slots, s \in Statuses :
       FetchResponse(i, s, NoHeader) /\ UNCHANGED elapsed
  \/ \E i \in Slots, m \in NetworkMessages :
       FetchNetworkError(i, m, 0) /\ UNCHANGED elapsed
  \/ \E i \in Slots : FetchTimeout(i, 0) /\ UNCHANGED elapsed
  \/ \E i \in Slots : FetchAborted(i) /\ UNCHANGED elapsed
  \/ \E i \in Slots : DrainDone(i, 0, 0) /\ UNCHANGED elapsed
  \/ \E i \in Slots : SleepDone(i) /\ UNCHANGED elapsed
  \/ \E i \in Slots, b \in Bodies : ReadOkDone(i, b) /\ UNCHANGED elapsed
  \/ \E i \in Slots : ReadOkAborted(i) /\ UNCHANGED elapsed
  \/ \E i \in Slots, d \in Details :
       ReadErrDone(i, [detail |-> d, errors |-> <<>>]) /\ UNCHANGED elapsed

SpecPage == Init /\ [][NextPage]_vars

\* ------------------------------------------------------------------ claims
Kinds == {"analyze", "refine"}

\* The ref that stores the controller of kind k.
Ref(k) == IF k = "analyze" THEN analyzeAbortRef ELSE refineAbortRef

\* Controllers of kind k that were created and not aborted and whose call
\* has not returned.
Live(k) ==
  {i \in Slots : inv[i].kind = k /\ InFlight(inv[i]) /\ ~Aborted(inv[i])}

\* The step is the return of the call in slot i.
Returns(i) == InFlight(inv[i]) /\ ~InFlight(inv'[i])

\* The step starts an upstream attempt of the call in slot i.
StartsAttempt(i) == inv[i].pc # "fetch" /\ inv'[i].pc = "fetch"

\* C1: an analyze call superseded by a newer analyze call never writes the
\* current result or the error message when it returns.
C1_SupersededAnalyzeNeverPublishes ==
  [][\A i \in Slots :
       (inv[i].kind = "analyze" /\ inv[i].cancel = "supersede" /\ Returns(i))
         => (result' = result /\ error' = error)]_vars

\* C2: once the cancellation signal of an invocation has fired, the
\* invocation starts no further upstream attempt.
C2_NoAttemptAfterAbort ==
  [][\A i \in Slots :
       (InFlight(inv[i]) /\ Aborted(inv[i])) => ~StartsAttempt(i)]_vars

\* C3: a call cancelled by teardown changes neither the current result nor
\* the error message afterwards.
C3_TeardownPublishesNothing ==
  [][\A i \in Slots :
       (inv[i].cancel = "teardown" /\ Returns(i))
         => (result' = result /\ error' = error)]_vars

\* C4: the in-progress flag of a kind is true while the most recently
\* started call of that kind (the one whose controller the ref holds) has
\* not returned.
C4_FlagCoversLatestCall ==
  /\ (analyzeAbortRef # 0 /\ InFlight(inv[analyzeAbortRef])) => loading
  /\ (refineAbortRef # 0 /\ InFlight(inv[refineAbortRef])) => refining

\* A non-2xx status that is neither 429 nor 5xx.
TerminalStatus(s) == s # 0 /\ ~ResponseOk(s) /\ ~(s >= 500 \/ s = 429)

\* C5: a response with a terminal status is never drained or followed by a
\* backoff wait or a further attempt; the call returns false with an error
\* message published, whatever the attempt index.
C5_TerminalStatusNotRetried ==
  [][\A i \in Slots :
       /\ TerminalStatus(inv'[i].status) => inv'[i].pc = "readErr"
       /\ (inv[i].pc = "readErr" /\ TerminalStatus(inv[i].status))
            => /\ inv'[i].pc \in {"readErr", "idle"}
               /\ inv'[i].attempt \in {inv[i].attempt, 0}
               /\ Returns(i) => /\ error' # ErrNull
                                /\ lastReturn' = "false"
                                /\ result' = result]_vars

C5_Witness ==
  /\ error = "Request failed: Unprocessable Entity"
  /\ lastReturn = "false"
  /\ \A i \in Slots : ~InFlight(inv[i])

\* C6: an invocation makes at most 1 + MAX_RETRIES attempts; a retryable
\* failure of the last attempt is followed by no backoff wait and ends the
\* call with an error published, and a retryable failure reaches the caller
\* only from the last attempt.
C6_AtMostThreeAttempts ==
  [][\A i \in Slots :
       /\ inv'[i].attempt <= MAX_RETRIES
       /\ inv[i].attempt = MAX_RETRIES => inv'[i].pc \notin {"drain", "sleep"}
       /\ (inv[i].pc = "readErr" /\ IsRetryableStatus(inv[i].status))
            => /\ inv[i].attempt = MAX_RETRIES
               /\ Returns(i) => (error' # ErrNull /\ lastReturn' = "false")
       /\ (inv[i].pc = "fetch" /\ ~Aborted(inv[i]) /\ Returns(i)
             /\ error' \in {TimeoutMsg, "Failed to fetch"})
            => (inv[i].attempt = MAX_RETRIES /\ lastReturn' = "false")]_vars

C6_Witness ==
  /\ error = "Request failed: Service Unavailable"
  /\ lastReturn = "false"
  /\ \A i \in Slots : ~InFlight(inv[i])

\* C7: the time one invocation takes, network time and backoff waits
\* included, never exceeds the overall budget of DEFAULT_TIMEOUT_MS.
C7_TotalWithinBudget == elapsed <= DEFAULT_TIMEOUT_MS

\* C8: while no document has been published there is no refine call in the
\* client, no refine controller and no refining flag, the number of calls
\* that reached the client grows by analyze only, and the step that
\* publishes the "no result" message returns false and changes nothing else.
C8_RefineWithoutResultFailsLocally ==
  [][result = NoResult =>
       /\ \A i \in Slots : inv'[i].kind # "refine"
       /\ ~refining'
       /\ refineAbortRef' = 0
       /\ (error' = NoResultMsg /\ error # NoResultMsg)
            => /\ lastReturn' = "false"
               /\ UNCHANGED <<result, loading, refining, analyzeAbortRef,
                              refineAbortRef, inv, calls>>]_vars

C8_Witness == result = NoResult /\ error = NoResultMsg /\ lastReturn = "false"

\* C9: a call that returns false (terminal failure, exhausted budget, local
\* rejection or cancellation) leaves the current document as it was.
C9_FailureKeepsDocument ==
  [][((\E i \in Slots : Returns(i)) \/ error' = NoResultMsg)
       /\ lastReturn' = "false" => result' = result]_vars

C9_Witness ==
  /\ result # NoResult
  /\ error = "Request failed: Unprocessable Entity"
  /\ lastReturn = "false"

\* C10: the current result, when there is one, satisfies the Structured
\* Document constraints.
C10_PublishedDocumentIsValid == result = NoResult \/ IsValidDocument(result)

\* C11: a refine call that succeeds overwrites the document it captured as
\* original_response: at the step where it publishes, the current result is
\* still its mutation base.
C11_RefineReplacesItsBase ==
  [][\A i \in Slots :
       (inv[i].kind = "refine" /\ Returns(i) /\ lastReturn' = "true")
         => result = inv[i].base]_vars

\* C12: per kind, at most one controller of an unfinished call is not
\* aborted, and it is the one the kind's ref stores: starting a call aborts
\* the stored controller before the new one is created and stored.
C12_OneLiveHandlePerKind ==
  \A k \in Kinds :
    /\ Cardinality(Live(k)) <= 1
    /\ \A i \in Live(k) : Ref(k) = i

C12_Witness ==
  \E i, j \in Slots :
    /\ inv[i].kind = "analyze" /\ InFlight(inv[i])
    /\ inv[i].cancel = "supersede"
    /\ inv[j].kind = "analyze" /\ Live("analyze") = {j}

\* C13: a ref stores a controller only while the call it was created for
\* has not returned.
C13_HandleDiscardedOnCompletion ==
  \A k \in Kinds :
    Ref(k) # 0 => (InFlight(inv[Ref(k)]) /\ inv[Ref(k)].kind = k)

\* C14: after teardown both refs are empty and the controller of every
\* unfinished call has been aborted, however many calls were in flight.
C14_TeardownAbortsBoth ==
  ~mounted =>
    /\ analyzeAbortRef = 0
    /\ refineAbortRef = 0
    /\ \A i \in Slots : InFlight(inv[i]) => Aborted(inv[i])

C14_Witness ==
  /\ ~mounted
  /\ \E i, j \in Slots :
       /\ inv[i].kind = "analyze" /\ inv[i].cancel = "teardown"
       /\ inv[j].kind = "refine" /\ inv[j].cancel = "teardown"

ExponentialDelay(n) ==
  Min(INITIAL_RETRY_DELAY_MS * Pow2(n), MAX_RETRY_DELAY_MS)

\* The step puts the call in slot i into a backoff wait.
StartsWait(i) == inv[i].pc # "sleep" /\ inv'[i].pc = "sleep"

\* The response the call in slot i is draining is a 429.
Draining429(i) == inv[i].pc = "drain" /\ inv[i].status = 429

\* The wait the step starts is the computed exponential delay.
WaitIsComputed(i) ==
  (inv'[i].delay - ExponentialDelay(inv[i].attempt)) \in Jitters

\* C17: for every attempt index n in 0..MAX_RETRIES and every jitter the
\* computed delay lies between min(1000 * 2^n, 10000) and that plus 1000,
\* so never above MAX_RETRY_DELAY_MS + 1000; without jitter it does not
\* decrease with n; and every wait that is not taken from a Retry-After
\* hint lies within these bounds for the attempt that failed.  The bounds
\* of the function are evaluated at each step that starts a wait.
C17_BackoffDelayBounds ==
  [][/\ (\E i \in Slots : StartsWait(i)) =>
          /\ \A n \in 0..MAX_RETRIES, j \in Jitters :
               /\ ExponentialDelay(n) <= calculateRetryDelay(n, j)
               /\ calculateRetryDelay(n, j) <= ExponentialDelay(n) + 1000
               /\ calculateRetryDelay(n, j) <= MAX_RETRY_DELAY_MS + 1000
          /\ \A n \in 0..(MAX_RETRIES - 1) :
               calculateRetryDelay(n, 0) <= calculateRetryDelay(n + 1, 0)
     /\ \A i \in Slots :
          (StartsWait(i)
             /\ ~(Draining429(i)
                    /\ inv[i].retryAfter.form \in {"seconds", "date"}))
            => /\ Min(1000 * Pow2(inv[i].attempt), 10000) <= inv'[i].delay
               /\ inv'[i].delay
                    <= Min(1000 * Pow2(inv[i].attempt), 10000) + 1000]_vars

C17_Witness ==
  \E i \in Slots :
    inv[i].pc = "sleep" /\ inv[i].attempt = 1 /\ inv[i].delay = 2999

\* C18: after a 429 with Retry-After of s whole seconds and budget left the
\* wait is min(s * 1000, 10000) ms and not the exponential delay, and the
\* next attempt starts only when that many ms have passed.
C18_RetryAfterSecondsOverrides ==
  [][\A i \in Slots :
       /\ (StartsWait(i) /\ Draining429(i)
             /\ inv[i].retryAfter.form = "seconds" /\ inv[i].retryAfter.n >= 0)
            => /\ inv'[i].delay =
                    Min(inv[i].retryAfter.n * 1000, MAX_RETRY_DELAY_MS)
               /\ ~WaitIsComputed(i)
       /\ (inv[i].pc = "sleep" /\ inv[i].delay >= 0 /\ StartsAttempt(i))
            => elapsed' - elapsed = inv[i].delay]_vars

C18_Witness ==
  \E i \in Slots :
    /\ inv[i].pc = "sleep"
    /\ inv[i].attempt = 1
    /\ inv[i].delay = 5000
    /\ elapsed >= 5000

\* C19: after a 429 whose Retry-After is a date the wait is
\* min(max(0, date - now), 10000), which is 0 for a date in the past; after
\* a 429 whose Retry-After is absent or unparsable the wait is the computed
\* exponential delay of the attempt; and after a 5xx, a deadline expiry or
\* a network failure the wait is the computed delay whatever the header.
C19_RetryAfterForms ==
  [][\A i \in Slots : StartsWait(i) =>
       /\ (Draining429(i) /\ inv[i].retryAfter.form = "date")
            => /\ inv'[i].delay =
                    Min(Max(0, inv[i].retryAfter.n - elapsed'),
                        MAX_RETRY_DELAY_MS)
               /\ inv[i].retryAfter.n <= elapsed' => inv'[i].delay = 0
       /\ (Draining429(i) /\ inv[i].retryAfter.form \in {"absent", "text"})
            => WaitIsComputed(i)
       /\ ~Draining429(i) => WaitIsComputed(i)]_vars

C19_Witness ==
  \E i \in Slots : inv[i].pc = "sleep" /\ inv[i].delay = 0

\* The step is the expiry of the deadline of the pending attempt.
DeadlineExpires(i) ==
  inv[i].pc = "fetch" /\ elapsed' = elapsed + DEFAULT_TIMEOUT_MS

\* The call in slot i returns without publishing anything.
ReturnsSilently(i) ==
  Returns(i) /\ lastReturn' = "false" /\ error' = error /\ result' = result

\* C20: the failure of an attempt falls in one class.  With budget left a
\* 5xx or 429 response is drained for a retry and a deadline expiry is
\* followed by a wait; any other non-2xx response goes to the error branch
\* whatever the budget; an attempt ended by the caller's signal makes the
\* call return silently and is never followed by a wait.
C20_FailureClasses ==
  [][\A i \in Slots : (inv[i].pc = "fetch" /\ inv'[i].pc # "fetch") =>
       LET budget == inv[i].attempt < MAX_RETRIES
           s == inv'[i].status
       IN /\ Cardinality({c \in {"retry", "surface", "silent", "success"} :
               \/ c = "retry" /\ inv'[i].pc \in {"drain", "sleep"}
               \/ c = "surface" /\ (inv'[i].pc = "readErr"
                                     \/ (Returns(i) /\ error' # error))
               \/ c = "silent" /\ ReturnsSilently(i)
               \/ c = "success" /\ inv'[i].pc = "readOk"}) = 1
          /\ inv'[i].pc = "drain" => (s >= 500 \/ s = 429)
          /\ (s >= 500 \/ s = 429) => (budget <=> inv'[i].pc = "drain")
          /\ TerminalStatus(s) => inv'[i].pc = "readErr"
          /\ (DeadlineExpires(i) /\ ~Aborted(inv[i]))
               => IF budget THEN inv'[i].pc = "sleep"
                  ELSE Returns(i) /\ error' = TimeoutMsg
          /\ (inv[i].innerAborted \/ (DeadlineExpires(i) /\ Aborted(inv[i])))
               => ReturnsSilently(i)]_vars

C20_Witness ==
  /\ ~mounted
  /\ Quiet
  /\ lastReturn = "false"
  /\ error = ErrNull
  /\ elapsed >= DEFAULT_TIMEOUT_MS

\* C21: a transport failure of an attempt reaches the caller only from the
\* last attempt: while the attempt index is below the budget it is retried,
\* whatever the text of its message.
C21_NetworkFailureRetried ==
  [][\A i \in Slots :
       (inv[i].pc = "fetch" /\ ~Aborted(inv[i]) /\ Returns(i)
          /\ error' \in NetworkMessages)
         => inv[i].attempt = MAX_RETRIES]_vars

\* C22: an attempt abandoned when only its deadline fired is a timeout: it
\* is retried while budget is left and surfaces the timed-out message
\* otherwise; an attempt abandoned while the caller's signal is aborted,
\* the deadline having fired or not, ends the call silently and is never
\* followed by a wait.
C22_OneTriggerPerAbandonment ==
  [][\A i \in Slots :
       /\ (DeadlineExpires(i) /\ ~Aborted(inv[i]))
            => /\ inv[i].attempt < MAX_RETRIES => inv'[i].pc = "sleep"
               /\ inv[i].attempt = MAX_RETRIES
                    => (Returns(i) /\ error' = TimeoutMsg)
       /\ (DeadlineExpires(i) /\ Aborted(inv[i])) => ReturnsSilently(i)
       /\ (inv[i].pc = "fetch" /\ inv[i].innerAborted /\ inv'[i] # inv[i])
            => ReturnsSilently(i)]_vars

C22_Witness ==
  /\ ~mounted
  /\ Quiet
  /\ calls = 1
  /\ lastReturn = "false"
  /\ error = ErrNull
  /\ elapsed >= DEFAULT_TIMEOUT_MS + INITIAL_RETRY_DELAY_MS

\* The step starts a call of kind k.
Starts(k) ==
  \E i \in Slots : ~InFlight(inv[i]) /\ InFlight(inv'[i]) /\ inv'[i].kind = k

\* The step leaves the controller, the calls and the flag of kind k alone.
KindUntouched(k) ==
  /\ Ref(k)' = Ref(k)
  /\ \A i \in Slots : inv[i].kind = k => inv'[i] = inv[i]
  /\ k = "analyze" => loading' = loading
  /\ k = "refine" => refining' = refining

\* C23: starting analyze leaves the refine controller, the refine calls and
\* the refining flag as they were, and starting refine leaves the analyze
\* controller, the analyze calls and the loading flag as they were.
C23_KindsIndependent ==
  [][/\ Starts("analyze") => KindUntouched("refine")
     /\ Starts("refine") => KindUntouched("analyze")]_vars

C23_Witness ==
  \E i, j \in Slots :
    /\ inv[i].kind = "analyze" /\ inv[i].pc = "fetch" /\ ~Aborted(inv[i])
    /\ inv[j].kind = "refine" /\ inv[j].pc = "fetch" /\ ~Aborted(inv[j])
    /\ loading /\ refining
    /\ calls = MaxCalls

\* C24: the feedback of every refine request in the client has a trimmed
\* length between FEEDBACK_MIN_LENGTH and FEEDBACK_MAX_LENGTH.
C24_RefineFeedbackLength ==
  \A i \in Slots :
    (InFlight(inv[i]) /\ inv[i].kind = "refine")
      => (FEEDBACK_MIN_LENGTH <= inv[i].len
            /\ inv[i].len <= FEEDBACK_MAX_LENGTH)

\* C25: the transcript of every analyze request in the client has a trimmed
\* length between TRANSCRIPT_MIN_LENGTH and TRANSCRIPT_MAX_LENGTH.
C25_AnalyzeTranscriptLength ==
  \A i \in Slots :
    (InFlight(inv[i]) /\ inv[i].kind = "analyze")
      => (TRANSCRIPT_MIN_LENGTH <= inv[i].len
            /\ inv[i].len <= TRANSCRIPT_MAX_LENGTH)

\* C26: a call enters the dispatcher at attempt 0; the attempt index changes
\* only when a wait ends, by exactly 1; a drain or a wait is entered from a
\* failed attempt only with index below MAX_RETRIES; and once the dispatcher
\* has handed over a response, thrown an error or rethrown a cancellation,
\* the call makes no further attempt and no wait.
C26_DispatcherStateMachine ==
  [][\A i \in Slots :
       /\ (~InFlight(inv[i]) /\ InFlight(inv'[i]))
            => (inv'[i].pc = "fetch" /\ inv'[i].attempt = 0)
       /\ (InFlight(inv[i]) /\ StartsAttempt(i))
            => (inv[i].pc = "sleep"
                  /\ inv'[i].attempt = inv[i].attempt + 1)
       /\ (InFlight(inv[i]) /\ InFlight(inv'[i]) /\ ~StartsAttempt(i))
            => inv'[i].attempt = inv[i].attempt
       /\ (inv[i].pc = "fetch" /\ inv'[i].pc \in {"drain", "sleep"})
            => inv[i].attempt < 2
       /\ inv'[i].pc = "drain" => inv[i].pc \in {"fetch", "drain"}
       /\ inv'[i].pc = "sleep" => inv[i].pc \in {"fetch", "drain", "sleep"}
       /\ inv[i].pc \in {"readOk", "readErr"}
            => inv'[i].pc \in {inv[i].pc, "idle"}
       /\ (inv[i].pc = "fetch" /\ inv[i].innerAborted /\ inv'[i] # inv[i])
            => Returns(i)]_vars

C26_Witness ==
  \E i \in Slots :
    inv[i].pc = "readErr" /\ inv[i].attempt = 2 /\ inv[i].status = 422

\* C27: the error a call surfaces comes from its last attempt: after a final
\* non-2xx response the message is that response's detail or names that
\* response's status, a final deadline expiry gives the timed-out message,
\* a final transport failure gives its own message, and a 5xx or 429
\* response surfaces only from the last attempt.
C27_LastFailureSurfaced ==
  [][\A i \in Slots : Returns(i) =>
       /\ inv[i].pc = "readErr"
            => /\ error' \in
                    {"Request failed: " \o StatusText(inv[i].status),
                     "Validation failed",
                     "Validation failed: transcript too short, context too long"}
               /\ (inv[i].status >= 500 \/ inv[i].status = 429)
                    => inv[i].attempt = MAX_RETRIES
       /\ (DeadlineExpires(i) /\ ~Aborted(inv[i]))
            => (error' = TimeoutMsg /\ inv[i].attempt = MAX_RETRIES)
       /\ (inv[i].pc = "fetch" /\ ~DeadlineExpires(i) /\ ~Aborted(inv[i]))
            => error' \in NetworkMessages]_vars

C27_Witness ==
  /\ Quiet
  /\ lastReturn = "false"
  /\ error = "Request failed: Too Many Requests"
  /\ elapsed >= DEFAULT_TIMEOUT_MS

\* C28: a 5xx or 429 response with budget left is drained first; the drain
\* always ends in a wait, whether the body could be read or not, with the
\* delay computed at that moment; the wait ends in attempt n + 1 after the
\* delay; and nothing is drained or waited for after attempt MAX_RETRIES or
\* after a terminal status.
C28_DrainThenWaitThenRetry ==
  [][\A i \in Slots :
       /\ (inv[i].pc = "fetch" /\ inv[i].attempt < MAX_RETRIES
             /\ (inv'[i].status >= 500 \/ inv'[i].status = 429))
            => (inv'[i].pc = "drain" /\ inv'[i].delay = 0)
       /\ inv[i].pc = "drain"
            => /\ inv'[i].pc \in {"drain", "sleep"}
               /\ inv'[i].attempt = inv[i].attempt
       /\ inv[i].pc = "sleep"
            => /\ inv'[i].pc \in {"sleep", "fetch"}
               /\ inv'[i].pc = "fetch"
                    => /\ inv'[i].attempt = inv[i].attempt + 1
                       /\ elapsed' = elapsed + Max(0, inv[i].delay)
       /\ inv[i].attempt = MAX_RETRIES => inv'[i].pc \notin {"drain", "sleep"}
       /\ TerminalStatus(inv'[i].status)
            => inv'[i].pc \notin {"drain", "sleep"}]_vars

C28_Witness ==
  \E i \in Slots :
    inv[i].pc = "drain" /\ inv[i].innerAborted /\ inv[i].attempt = 1

\* C29: the message shown for a failure is one string fixed by the kind of
\* the error: the timed-out text for a timeout; for an ApiError its message,
\* followed by ": " and the details joined by ", " when it has details; the
\* message of any other Error; the generic text for a value that is not an
\* Error.
C29_UserFacingMessage ==
  [][/\ formatErrorMessage(TimeoutErrorObj)
          = "Request timed out. The server may be busy - please try again."
     /\ formatErrorMessage(ApiErrorObj("Bad input", 422, <<"a", "b">>))
          = "Bad input: a, b"
     /\ formatErrorMessage(ApiErrorObj("Bad input", 422, <<"a">>))
          = "Bad input: a"
     /\ formatErrorMessage(ApiErrorObj("Bad input", 422, <<>>)) = "Bad input"
     /\ formatErrorMessage(TypeErrorObj("Load failed")) = "Load failed"
     /\ formatErrorMessage(SyntaxErrorObj) = "Unexpected end of JSON input"
     /\ formatErrorMessage(NonErrorObj) = "An unexpected error occurred"
     /\ \A i \in Slots : (Returns(i) /\ error' # error) =>
          /\ inv[i].pc = "readErr"
               => error' \in
                    {"Request failed: " \o StatusText(inv[i].status),
                     "Validation failed",
                     "Validation failed: transcript too short, context too long"}
          /\ inv[i].pc = "readOk" => error' = "Unexpected end of JSON input"
          /\ DeadlineExpires(i)
               => error'
                    = "Request timed out. The server may be busy - please try again."
          /\ (inv[i].pc = "fetch" /\ ~DeadlineExpires(i))
               => error' \in {"Failed to fetch", "Load failed"}]_vars

C29_Witness ==
  /\ Quiet
  /\ lastReturn = "false"
  /\ error = "Validation failed: transcript too short, context too long"

\* C30: when every deadline timer fires and every backoff wait elapses,
\* every analyze or refine call that was started eventually returns.
C30_EveryCallCompletes ==
  \A i \in Slots : InFlight(inv[i]) ~> ~InFlight(inv[i])

C32_ResultStaysPresent ==
  [][result # NoResult => result' # NoResult]_vars

\* C33: a call returns true exactly when it wrote the current result: the
\* result changes only in a step in which a call returns true after reading
\* a 2xx body; a call that returns after a non-2xx response, a thrown error
\* or a cancellation returns false and leaves the result alone, and so does
\* a refine that is rejected locally.
C33_ReturnValueTellsWrite ==
  [][/\ result' # result
          => \E i \in Slots : Returns(i) /\ lastReturn' = "true"
     /\ \A i \in Slots : Returns(i) =>
          /\ lastReturn' \in {"true", "false"}
          /\ lastReturn' = "true"
               <=> (inv[i].pc = "readOk" /\ ~inv[i].innerAborted
                      /\ error' = error)
          /\ lastReturn' = "true" => result' \in ResponseBodies
          /\ lastReturn' = "false" => result' = result
          /\ inv[i].pc \in {"fetch", "readErr"} => lastReturn' = "false"
     /\ (error' = NoResultMsg /\ error # NoResultMsg)
          => (lastReturn' = "false" /\ result' = result)]_vars

C33_Witness ==
  /\ Quiet
  /\ calls = 1
  /\ lastReturn = "true"
  /\ result \in Bodies
  /\ error = ErrNull
  /\ elapsed >= DEFAULT_TIMEOUT_MS

\* C34: a step that starts a call of either kind leaves the error message
\* null, whichever kind published it; a call of either kind that returns
\* after a non-2xx response leaves its own message in it; and a step that
\* only clears the message changes nothing else.
C34_SharedErrorCell ==
  [][/\ (Starts("analyze") \/ Starts("refine")) => error' = ErrNull
     /\ \A i \in Slots : (Returns(i) /\ inv[i].pc = "readErr")
          => error' \in
               {"Request failed: " \o StatusText(inv[i].status),
                "Validation failed",
                "Validation failed: transcript too short, context too long"}
     /\ (error # ErrNull /\ error' = ErrNull
           /\ ~(Starts("analyze") \/ Starts("refine")))
          => UNCHANGED <<result, loading, refining, analyzeAbortRef,
                         refineAbortRef, inv, lastReturn, calls>>]_vars

C34_Witness ==
  \E i \in Slots :
    /\ inv[i].kind = "refine" /\ inv[i].pc = "fetch"
    /\ calls = MaxCalls
    /\ lastReturn = "false"
    /\ error = ErrNull

\* C35: a call has at most one pending deadline timer, and only while a
\* fetch is pending, for the attempt that fetch belongs to: once an attempt
\* has settled its timer is gone.
C35_TimerClearedOnSettle ==
  \A i \in Slots :
    /\ Cardinality(inv[i].timers) <= 1
    /\ inv[i].pc = "fetch" => inv[i].timers = {inv[i].attempt}
    /\ inv[i].pc # "fetch" => inv[i].timers = {}

C35_Witness ==
  \E i \in Slots :
    /\ inv[i].pc = "fetch"
    /\ inv[i].attempt = MAX_RETRIES
    /\ inv[i].timers = {MAX_RETRIES}

\* The step starts a call of kind k whose trimmed input has length below n.
StartsShort(k, n) ==
  \E i \in Slots :
    /\ ~InFlight(inv[i])
    /\ InFlight(inv'[i])
    /\ inv'[i].kind = k
    /\ inv'[i].len < n

\* C36: on the page an analyze call starts only while loading is false and
\* with a trimmed transcript of at least 50 characters, and a refine call
\* starts only while refining is false, loading is false and a result
\* exists; an analyze call can start while a refine call is in flight.
C36_PageGating ==
  [][/\ Starts("analyze")
          => (~loading /\ ~StartsShort("analyze", TRANSCRIPT_MIN_LENGTH))
     /\ Starts("refine")
          => (~refining /\ ~loading /\ result # NoResult)]_vars

C36_Witness ==
  /\ loading
  /\ refining
  /\ \E i, j \in Slots :
       /\ inv[i].kind = "refine" /\ inv[i].pc = "readOk"
       /\ ~Aborted(inv[i])
       /\ inv[j].kind = "analyze" /\ inv[j].pc = "fetch"
       /\ inv[j].attempt = 0
       /\ inv[j].len >= TRANSCRIPT_MIN_LENGTH
====
